---- MODULE Spec2Model ----
(***************************************************************************)
(* State-machine model of the buyer marketplace page (cart, per-product    *)
(* selection, catalog fetch) and of the WebSocketProvider (push channel,   *)
(* notifications) of wao-ui.                                               *)
(*                                                                         *)
(* The React tree is RootLayout > WebSocketProvider > page.  Every handler *)
(* runs to completion on the single UI thread, so each handler, effect or  *)
(* timer callback is one action.                                           *)
(***************************************************************************)
EXTENDS Integers, Sequences, FiniteSets, TLC

\* ------------------------------------------------------------------ bounds

\* A cart line's quantity is capped in the model (the code has no cap).
MaxLineQuantity == 5

\* Outstanding auto-dismiss timers (the code never clears one).
MaxTimers == 2

\* fetchProducts calls started while an earlier one still awaits its response.
MaxOverlaps == 1

\* Outstanding purchase-order POSTs.
MaxOrderRequests == 2

\* --------------------------------------------------------- catalog (inputs)

ProductIds == {"p1", "p2"}

\* selectedOptions[productId] undefined or "": both are falsy and match no option id.
NoOption == ""

Option(name, price, quantity) == [name |-> name, price |-> price, quantity |-> quantity]

Product(code, name, options) == [code |-> code, name |-> name, options |-> options]

\* A server response: p1 has an option with 3 available and one sold out (0);
\* p2 reuses option id "oA".
CatalogA ==
    ("p1" :> Product("c1", "n1", ("oA" :> Option("a", 2, 3)) @@ ("oB" :> Option("b", 5, 0))))
    @@ ("p2" :> Product("c2", "n2", ("oA" :> Option("a2", 3, 1))))

\* A later response: p1 renamed, oA repriced with less stock, oB and p2 gone.
CatalogB ==
    ("p1" :> Product("c1", "n1x", ("oA" :> Option("ax", 4, 1))))

Catalogs == {CatalogA, CatalogB}

OptionIds == {"oA", "oB"}

\* Quantities a caller may pass to handleQuantityChange.
QuantityInputs == 0 .. 4

\* ------------------------------------------------------- push frames (inputs)

NoData == ""

Payloads == {"d1", "d2"}

Frame(raw, event, data) == [raw |-> raw, event |-> event, data |-> data]

\* lastMessage before any frame arrived (null).
NullMessage == Frame("null", "", NoData)

MalformedFrame == Frame("{not json", "", NoData)

WellFormedFrames ==
    { Frame("json", e, d) : e \in {"product_created", "order_updated"}, d \in Payloads \cup {NoData} }
    \cup { Frame("json", "ping", d) : d \in {"d1", NoData} }

Frames == WellFormedFrames \cup {MalformedFrame}

\* One frame of each sort: product, order, unrecognized, malformed.
OneFrameOfEachSort ==
    { Frame("json", "product_created", "d1"), Frame("json", "order_updated", "d1"),
      Frame("json", "ping", NoData), MalformedFrame }

Tokens == {"none", "buyer", "supplier", "garbage"}

\* ---------------------------------------------------------- program constants

reconnectAttempts == 10

\* --------------------------------------------------------------------- state

VARIABLES
    token,                  \* localStorage "token": the role it decodes to, "none", or "garbage"
    products,               \* MarketplacePage: loaded catalog, productId -> Product
    isLoading,
    fetching,               \* fetchProducts calls awaiting their response
    cart,                   \* sequence of CartItem
    selectedOptions,
    quantities,
    supersededFetches,      \* of those, the ones started before the most recent
    latestApplied,          \* the most recent call's response is shown, older calls still await theirs
    staleProducts,          \* products come from a call whose successor's response was shown before
    isCreatingOrder,
    orderRequests,          \* handleCreateOrder calls awaiting their response
    leaving,                \* router.push was called: the page stays mounted until the new route renders
    toast,                  \* title of the last toast() call
    userRole,               \* WebSocketProvider
    roleChecked,            \* the mount effect has run
    readyState,
    reconnectCount,
    reconnectTimer,         \* the library's reconnect setTimeout is pending
    lastMessage,
    showNotification,
    newProduct,
    showOrderNotification,
    updatedOrder,
    dismissTimers,          \* pending 100000 ms timers, oldest first: "product" / "order"
    crashed                 \* rendering threw: the tree under RootLayout is unmounted

orderVars == <<isCreatingOrder, orderRequests, leaving>>

fetchVars == <<supersededFetches, latestApplied, staleProducts>>

pageVars == <<products, isLoading, fetching, fetchVars, cart, selectedOptions, quantities, orderVars>>

wsVars == <<userRole, roleChecked, readyState, reconnectCount, reconnectTimer, lastMessage,
            showNotification, newProduct, showOrderNotification, updatedOrder, dismissTimers,
            crashed>>

vars == <<token, toast, pageVars, wsVars>>

\* ------------------------------------------------------------------ helpers

NoProducts == [p \in {} |-> Product("", "", <<>>)]

\* useState initial values of MarketplacePage (missing keys read as "" / 1).
PageInit ==
    /\ products = NoProducts
    /\ isLoading = TRUE
    /\ fetching = 0
    /\ supersededFetches = 0
    /\ latestApplied = FALSE
    /\ staleProducts = FALSE
    /\ cart = <<>>
    /\ selectedOptions = [p \in ProductIds |-> NoOption]
    /\ quantities = [p \in ProductIds |-> 1]
    /\ isCreatingOrder = FALSE
    /\ orderRequests = 0
    /\ leaving = FALSE

\* The page's state is discarded (unmount): a later mount starts from the initial values.
PageDiscarded ==
    /\ products' = NoProducts
    /\ isLoading' = TRUE
    /\ fetching' = 0
    /\ supersededFetches' = 0
    /\ latestApplied' = FALSE
    /\ staleProducts' = FALSE
    /\ cart' = <<>>
    /\ selectedOptions' = [p \in ProductIds |-> NoOption]
    /\ quantities' = [p \in ProductIds |-> 1]
    /\ isCreatingOrder' = FALSE
    /\ orderRequests' = 0
    /\ leaving' = FALSE

\* ------------------------------------------------- MarketplacePage: catalog

\* The page effect's token check passes only for a token whose payload role is "buyer".
IsBuyerToken(t) == t = "buyer"

\* fetchProducts up to its await: runs from the page effect once the token check passed.
fetchProducts ==
    /\ ~crashed
    /\ IsBuyerToken(token)
    /\ isLoading' = TRUE
    /\ fetching' = fetching + 1
    /\ supersededFetches' = fetching
    /\ latestApplied' = FALSE
    /\ UNCHANGED <<token, toast, products, staleProducts, cart, selectedOptions, quantities,
                   orderVars, wsVars>>

\* The page effect calls fetchProducts while no earlier call awaits its response: at mount,
\* and when a handler of the rendered page or a response changed the effect's dependencies.
fetchProductsStart ==
    /\ fetching = 0
    /\ fetchProducts

\* The page effect runs once more while an earlier fetchProducts awaits its response (the
\* second run of a mount effect under React's StrictMode; nothing in fetchProducts waits
\* for or cancels the earlier call).
effectRunsAgain ==
    /\ fetching \in 1 .. MaxOverlaps
    /\ fetchProducts

\* response.ok: setProducts(data.items), then finally setIsLoading(false).
fetchProductsOk(items) ==
    /\ ~crashed
    /\ fetching > 0
    /\ products' = items
    /\ isLoading' = FALSE
    /\ fetching' = fetching - 1
    /\ \/ /\ fetching > supersededFetches          \* the most recent call's response
          /\ latestApplied' = (supersededFetches > 0)
          /\ staleProducts' = FALSE
          /\ UNCHANGED supersededFetches
       \/ /\ supersededFetches > 0                 \* an older call's response
          /\ supersededFetches' = supersededFetches - 1
          /\ latestApplied' = (latestApplied /\ supersededFetches > 1)
          /\ staleProducts' = latestApplied
    /\ UNCHANGED <<token, toast, cart, selectedOptions, quantities, orderVars, wsVars>>

\* Non-OK response or network error: an error toast, then finally setIsLoading(false).
fetchProductsFail ==
    /\ ~crashed
    /\ fetching > 0
    /\ toast' = "Error"
    /\ isLoading' = FALSE
    /\ fetching' = fetching - 1
    /\ \/ /\ fetching > supersededFetches          \* the most recent call's response
          /\ latestApplied' = FALSE
          /\ UNCHANGED supersededFetches
       \/ /\ supersededFetches > 0                 \* an older call's response
          /\ supersededFetches' = supersededFetches - 1
          /\ latestApplied' = (latestApplied /\ supersededFetches > 1)
    /\ UNCHANGED <<token, products, staleProducts, cart, selectedOptions, quantities,
                   orderVars, wsVars>>

\* ------------------------------------------------ MarketplacePage: selection

\* A select that keeps the quantity chosen for the previous option.
handleOptionSelectKeepsQuantity(productId, optionId) ==
    /\ ~crashed
    /\ selectedOptions' = [selectedOptions EXCEPT ![productId] = optionId]
    /\ UNCHANGED <<token, toast, products, isLoading, fetching, cart, quantities, orderVars, fetchVars, wsVars>>

handleOptionSelect(productId, optionId) ==
    /\ ~crashed
    /\ selectedOptions' = [selectedOptions EXCEPT ![productId] = optionId]
    /\ quantities' = [quantities EXCEPT ![productId] = 1]
    /\ UNCHANGED <<token, toast, products, isLoading, fetching, cart, orderVars, fetchVars, wsVars>>

\* product?.options.find(opt => opt.id === selectedOptionId) is defined.
HasSelectedOption(productId) ==
    /\ productId \in DOMAIN products
    /\ selectedOptions[productId] \in DOMAIN products[productId].options

SelectedOption(productId) == products[productId].options[selectedOptions[productId]]

\* A handleQuantityChange that checks only the lower bound.
handleQuantityChangeNoCeiling(productId, quantity) ==
    /\ ~crashed
    /\ quantities' =
          IF HasSelectedOption(productId) /\ quantity >= 1
          THEN [quantities EXCEPT ![productId] = quantity]
          ELSE quantities
    /\ UNCHANGED <<token, toast, products, isLoading, fetching, cart, selectedOptions, orderVars, fetchVars, wsVars>>

handleQuantityChange(productId, quantity) ==
    /\ ~crashed
    /\ quantities' =
          IF /\ HasSelectedOption(productId)
             /\ quantity <= SelectedOption(productId).quantity
             /\ quantity >= 1
          THEN [quantities EXCEPT ![productId] = quantity]
          ELSE quantities
    /\ UNCHANGED <<token, toast, products, isLoading, fetching, cart, selectedOptions, orderVars, fetchVars, wsVars>>

\* ------------------------------------------------------ MarketplacePage: cart

\* A findIndex whose predicate compares the wrong field and so never matches.
findIndexNeverMatches(items, productId, optionId) == -1

\* cart.findIndex(item => item.productId === productId && item.optionId === optionId):
\* the 0-based index of the first match, -1 if there is none.
findIndex(items, productId, optionId) ==
    LET hits == { i \in 1 .. Len(items) :
                    items[i].productId = productId /\ items[i].optionId = optionId }
    IN  IF hits = {} THEN -1 ELSE (CHOOSE i \in hits : \A j \in hits : i <= j) - 1

\* A merge that assigns (=) where the code adds (+=).
mergedQuantityAssigned(existing, quantity) == quantity

\* newCart[existingItemIndex].quantity += quantity
mergedQuantity(existing, quantity) == existing + quantity

\* A merge that stops at the line's maxQuantity.
mergedLineCapped(line, quantity) ==
    [line EXCEPT !.quantity = IF @ + quantity > line.maxQuantity
                              THEN line.maxQuantity
                              ELSE @ + quantity]

\* A merge that copies the option's current name, price and available quantity.
mergedLineResnapshot(line, quantity) ==
    [line EXCEPT !.quantity    = mergedQuantity(@, quantity),
                 !.productName = products[line.productId].name,
                 !.optionName  = products[line.productId].options[line.optionId].name,
                 !.price       = products[line.productId].options[line.optionId].price,
                 !.maxQuantity = products[line.productId].options[line.optionId].quantity]

\* The existing line after newCart[existingItemIndex].quantity += quantity: no other field
\* is written.
mergedLine(line, quantity) == [line EXCEPT !.quantity = mergedQuantity(@, quantity)]

\* A reset that leaves the selection in place.
resetSelectionKeeps(selected, productId) == selected

\* setSelectedOptions((prev) => ({ ...prev, [productId]: "" }))
resetSelection(selected, productId) == [selected EXCEPT ![productId] = NoOption]

\* newItem: the snapshot of product and option taken when the line is created.
NewItem(productId, quantity) ==
    [ productId   |-> productId,
      productName |-> products[productId].name,
      productCode |-> products[productId].code,
      optionId    |-> selectedOptions[productId],
      optionName  |-> SelectedOption(productId).name,
      price       |-> SelectedOption(productId).price,
      quantity    |-> quantity,
      maxQuantity |-> SelectedOption(productId).quantity ]

\* A spread in the other order: [newItem, ...cart].
withNewItemFirst(items, newItem) == <<newItem>> \o items

\* [...cart, newItem]
withNewItem(items, newItem) == Append(items, newItem)

\* A rejection that runs the "Reset selection" statements before returning.
rejectAddResetting(productId) ==
    /\ toast' = "Error: Please select a product option"
    /\ selectedOptions' = resetSelection(selectedOptions, productId)
    /\ quantities' = [quantities EXCEPT ![productId] = 1]
    /\ UNCHANGED cart

\* if (!product || !selectedOption) { toast(...); return }
rejectAdd(productId) ==
    /\ toast' = "Error: Please select a product option"
    /\ UNCHANGED <<cart, selectedOptions, quantities>>

addToCart(productId) ==
    LET quantity == quantities[productId]
        existingItemIndex == findIndex(cart, productId, selectedOptions[productId])
    IN  /\ ~crashed
        /\ IF ~HasSelectedOption(productId)
           THEN rejectAdd(productId)
           ELSE /\ IF existingItemIndex >= 0
                   THEN /\ cart[existingItemIndex + 1].quantity + quantity <= MaxLineQuantity
                        /\ cart' = [cart EXCEPT ![existingItemIndex + 1] =
                                                  mergedLine(@, quantity)]
                   ELSE cart' = withNewItem(cart, NewItem(productId, quantity))
                /\ toast' = "Added to cart"
                /\ selectedOptions' = resetSelection(selectedOptions, productId)
                /\ quantities' = [quantities EXCEPT ![productId] = 1]
        /\ UNCHANGED <<token, products, isLoading, fetching, orderVars, fetchVars, wsVars>>

\* A filter that counts the lines from 1.
RECURSIVE filterOutIndexFromOne(_, _, _)
filterOutIndexFromOne(items, from, index) ==
    IF from > Len(items)
    THEN <<>>
    ELSE (IF from # index THEN <<items[from]>> ELSE <<>>)
         \o filterOutIndexFromOne(items, from + 1, index)

\* A filter with === for !==: it keeps the line at index and drops the others.
RECURSIVE filterOutIndexKeepsIt(_, _, _)
filterOutIndexKeepsIt(items, from, index) ==
    IF from > Len(items)
    THEN <<>>
    ELSE (IF from - 1 = index THEN <<items[from]>> ELSE <<>>)
         \o filterOutIndexKeepsIt(items, from + 1, index)

\* items.filter((_, i) => i !== index) from position `from` on; index is 0-based.
RECURSIVE filterOutIndex(_, _, _)
filterOutIndex(items, from, index) ==
    IF from > Len(items)
    THEN <<>>
    ELSE (IF from - 1 # index THEN <<items[from]>> ELSE <<>>)
         \o filterOutIndex(items, from + 1, index)

removeFromCart(index) ==
    /\ ~crashed
    /\ cart' = filterOutIndex(cart, 1, index)
    /\ UNCHANGED <<token, toast, products, isLoading, fetching, selectedOptions, quantities, orderVars, fetchVars, wsVars>>

\* cart.reduce((total, item) => total + item.price * item.quantity, 0)
\* A reduce whose callback adds price and quantity.
RECURSIVE reduceTotalAdds(_, _)
reduceTotalAdds(items, from) ==
    IF from > Len(items)
    THEN 0
    ELSE items[from].price + items[from].quantity + reduceTotalAdds(items, from + 1)

RECURSIVE reduceTotal(_, _)
reduceTotal(items, from) ==
    IF from > Len(items)
    THEN 0
    ELSE items[from].price * items[from].quantity + reduceTotal(items, from + 1)

getTotalAmount == reduceTotal(cart, 1)

\* localStorage.removeItem("token"); router.push("/") starts the navigation away.
handleLogout ==
    /\ ~crashed
    /\ token' = "none"
    /\ leaving' = TRUE
    /\ UNCHANGED <<toast, products, isLoading, fetching, cart, selectedOptions, quantities,
                   isCreatingOrder, orderRequests, fetchVars, wsVars>>

\* The route pushed by router.push has rendered: MarketplacePage unmounts and its state is
\* dropped; responses still outstanding find nothing to update.
navigationCompletes ==
    /\ ~crashed
    /\ leaving
    /\ PageDiscarded
    /\ UNCHANGED <<token, toast, fetchVars, wsVars>>

\* handleCreateOrder up to its await: nothing for an empty cart, else the POST is sent.
handleCreateOrder ==
    /\ ~crashed
    /\ IF cart = <<>>
       THEN UNCHANGED <<isCreatingOrder, orderRequests>>
       ELSE /\ orderRequests < MaxOrderRequests
            /\ isCreatingOrder' = TRUE
            /\ orderRequests' = orderRequests + 1
    /\ UNCHANGED <<token, toast, products, isLoading, fetching, cart, selectedOptions,
                   quantities, leaving, fetchVars, wsVars>>

\* response.ok: the success toast, router.push to the order page, finally
\* setIsCreatingOrder(false).  No statement touches the cart.
createOrderOk ==
    /\ ~crashed
    /\ orderRequests > 0
    /\ orderRequests' = orderRequests - 1
    /\ toast' = "Success"
    /\ leaving' = TRUE
    /\ isCreatingOrder' = FALSE
    /\ UNCHANGED <<token, products, isLoading, fetching, cart, selectedOptions, quantities,
                   fetchVars, wsVars>>

\* A failure path without the finally block.
createOrderFailWithoutFinally ==
    /\ ~crashed
    /\ orderRequests > 0
    /\ orderRequests' = orderRequests - 1
    /\ toast' = "Error"
    /\ UNCHANGED <<token, products, isLoading, fetching, cart, selectedOptions, quantities,
                   isCreatingOrder, leaving, fetchVars, wsVars>>

\* Non-OK response or network error: an error toast, finally setIsCreatingOrder(false).
createOrderFail ==
    /\ ~crashed
    /\ orderRequests > 0
    /\ orderRequests' = orderRequests - 1
    /\ toast' = "Error"
    /\ isCreatingOrder' = FALSE
    /\ UNCHANGED <<token, products, isLoading, fetching, cart, selectedOptions, quantities,
                   leaving, fetchVars, wsVars>>

\* ---------------------------------------------------------- WebSocketProvider

\* JSON.parse(atob(token.split(".")[1])).role; a missing or undecodable token leaves null.
TokenRole(t) == IF t \in {"buyer", "supplier"} THEN t ELSE "null"

\* The mount effect (dependency list []): runs once per mount.
checkUserRole ==
    /\ ~crashed
    /\ ~roleChecked
    /\ roleChecked' = TRUE
    /\ userRole' = TokenRole(token)
    /\ UNCHANGED <<token, toast, pageVars, readyState, reconnectCount, reconnectTimer,
                   lastMessage, showNotification, newProduct, showOrderNotification,
                   updatedOrder, dismissTimers, crashed>>

\* A connect flag that ignores the role.
connectAlways == TRUE

\* useWebSocket's third argument.
connect == userRole = "buyer"

\* The hook opens the socket once connect is true.
openSocket ==
    /\ ~crashed
    /\ connect
    /\ readyState = "UNINSTANTIATED"
    /\ readyState' = "CONNECTING"
    /\ UNCHANGED <<token, toast, pageVars, userRole, roleChecked, reconnectCount,
                   reconnectTimer, lastMessage, showNotification, newProduct,
                   showOrderNotification, updatedOrder, dismissTimers, crashed>>

\* Handshake done: the hook resets its reconnect count, then the onOpen option runs.
onOpen ==
    /\ ~crashed
    /\ readyState = "CONNECTING"
    /\ readyState' = "OPEN"
    /\ reconnectCount' = 0
    /\ toast' = "Connected"
    /\ UNCHANGED <<token, pageVars, userRole, roleChecked, reconnectTimer, lastMessage,
                   showNotification, newProduct, showOrderNotification, updatedOrder,
                   dismissTimers, crashed>>

\* A shouldReconnect that gives up.
shouldNotReconnect == FALSE

\* shouldReconnect: (closeEvent) => true
shouldReconnect == TRUE

\* The socket closed (server close, lost connection, failed handshake): readyState CLOSED,
\* and with shouldReconnect the hook schedules a reconnect while its count is below
\* reconnectAttempts.
SocketClosed ==
    /\ readyState \in {"CONNECTING", "OPEN"}
    /\ readyState' = "CLOSED"
    /\ reconnectTimer' = (shouldReconnect /\ reconnectCount < reconnectAttempts)

onClose ==
    /\ ~crashed
    /\ SocketClosed
    /\ UNCHANGED <<token, toast, pageVars, userRole, roleChecked, reconnectCount, lastMessage,
                   showNotification, newProduct, showOrderNotification, updatedOrder,
                   dismissTimers, crashed>>

\* A transport error: the onError option toasts, and the browser then closes the socket.
onError ==
    /\ ~crashed
    /\ SocketClosed
    /\ toast' = "Connection Error"
    /\ UNCHANGED <<token, pageVars, userRole, roleChecked, reconnectCount, lastMessage,
                   showNotification, newProduct, showOrderNotification, updatedOrder,
                   dismissTimers, crashed>>

\* reconnectInterval (3000 ms) elapsed: the hook counts the attempt and reconnects.
reconnect ==
    /\ ~crashed
    /\ reconnectTimer
    /\ reconnectTimer' = FALSE
    /\ reconnectCount' = reconnectCount + 1
    /\ readyState' = "CONNECTING"
    /\ UNCHANGED <<token, toast, pageVars, userRole, roleChecked, lastMessage,
                   showNotification, newProduct, showOrderNotification, updatedOrder,
                   dismissTimers, crashed>>

\* JSON.parse(lastMessage.data): the parsed message, or a thrown SyntaxError (ok = FALSE).
JSONparse(frame) ==
    IF frame.raw = "json"
    THEN [ok |-> TRUE, event |-> frame.event, data |-> frame.data]
    ELSE [ok |-> FALSE, event |-> "", data |-> NoData]

\* A test that takes every event name but the two recognized ones for its own kind.
AcceptsUnlessOtherKind(message, kind) ==
    /\ message.event = kind \/ message.event \notin {"product_created", "order_updated"}
    /\ message.data # NoData

\* A test that forgets to look at the payload.
AcceptsWithoutData(message, kind) == message.event = kind

\* A test that forgets the event name.
AcceptsAnyEvent(message, kind) == message.data # NoData

\* message.event === kind && message.data (an absent data is falsy).
Accepts(message, kind) == message.event = kind /\ message.data # NoData

\* The frame makes the message effect start a dismiss timer.
StartsTimer(frame) ==
    /\ JSONparse(frame).ok
    /\ \/ Accepts(JSONparse(frame), "product_created")
       \/ Accepts(JSONparse(frame), "order_updated")

\* A message effect that shows the notification and forgets the setTimeout.
messageEffectWithoutTimer(frame) ==
    LET message == JSONparse(frame)
    IN  IF userRole = "buyer" /\ message.ok
        THEN /\ IF Accepts(message, "product_created")
                THEN newProduct' = message.data /\ showNotification' = TRUE
                ELSE UNCHANGED <<newProduct, showNotification>>
             /\ IF Accepts(message, "order_updated")
                THEN updatedOrder' = message.data /\ showOrderNotification' = TRUE
                ELSE UNCHANGED <<updatedOrder, showOrderNotification>>
             /\ UNCHANGED dismissTimers
        ELSE UNCHANGED <<newProduct, showNotification, updatedOrder, showOrderNotification,
                         dismissTimers>>

\* The message effect: try { JSON.parse; upsert the notification of the event's kind and
\* setTimeout its dismiss } catch { console.error }.
messageEffect(frame) ==
    LET message == JSONparse(frame)
    IN  IF userRole = "buyer" /\ message.ok
        THEN /\ IF Accepts(message, "product_created")
                THEN newProduct' = message.data /\ showNotification' = TRUE
                ELSE UNCHANGED <<newProduct, showNotification>>
             /\ IF Accepts(message, "order_updated")
                THEN updatedOrder' = message.data /\ showOrderNotification' = TRUE
                ELSE UNCHANGED <<updatedOrder, showOrderNotification>>
             /\ dismissTimers' =
                   IF Accepts(message, "product_created") THEN Append(dismissTimers, "product")
                   ELSE IF Accepts(message, "order_updated") THEN Append(dismissTimers, "order")
                   ELSE dismissTimers
        ELSE UNCHANGED <<newProduct, showNotification, updatedOrder, showOrderNotification,
                         dismissTimers>>

\* Rendering threw under RootLayout, which has no error boundary below it: the provider and
\* the page unmount, their state is dropped, the hook's cleanup closes the socket and the
\* timers still pending find nothing to update.
renderThrows ==
    /\ crashed' = TRUE
    /\ PageDiscarded
    /\ readyState' = "CLOSED"
    /\ reconnectTimer' = FALSE
    /\ showNotification' = FALSE
    /\ showOrderNotification' = FALSE
    /\ dismissTimers' = <<>>
    /\ UNCHANGED <<userRole, roleChecked, reconnectCount, newProduct, updatedOrder>>

\* A frame arrives on the open socket: the hook stores it in lastMessage and the provider
\* re-renders, where the context value evaluates JSON.parse(lastMessage.data) outside any
\* try; only a render that returns lets the message effect run.
onMessage(frame) ==
    /\ ~crashed
    /\ readyState = "OPEN"
    /\ StartsTimer(frame) => Len(dismissTimers) < MaxTimers
    /\ lastMessage' = frame
    /\ IF JSONparse(frame).ok
       THEN /\ messageEffect(frame)
            /\ UNCHANGED <<pageVars, userRole, roleChecked, readyState, reconnectCount,
                           reconnectTimer, crashed>>
       ELSE renderThrows
    /\ UNCHANGED <<token, toast>>

dismissTimerFiresHidesBoth ==
    /\ ~crashed
    /\ dismissTimers # <<>>
    /\ dismissTimers' = Tail(dismissTimers)
    /\ showNotification' = FALSE
    /\ showOrderNotification' = FALSE
    /\ UNCHANGED <<token, toast, pageVars, userRole, roleChecked, readyState, reconnectCount,
                   reconnectTimer, lastMessage, newProduct, updatedOrder, crashed>>

\* The oldest pending setTimeout callback runs: setShowNotification(false) or
\* setShowOrderNotification(false).
dismissTimerFires ==
    /\ ~crashed
    /\ dismissTimers # <<>>
    /\ dismissTimers' = Tail(dismissTimers)
    /\ IF Head(dismissTimers) = "product"
       THEN showNotification' = FALSE /\ UNCHANGED showOrderNotification
       ELSE showOrderNotification' = FALSE /\ UNCHANGED showNotification
    /\ UNCHANGED <<token, toast, pageVars, userRole, roleChecked, readyState, reconnectCount,
                   reconnectTimer, lastMessage, newProduct, updatedOrder, crashed>>

handleCloseNotification ==
    /\ ~crashed
    /\ showNotification /\ newProduct # NoData
    /\ showNotification' = FALSE
    /\ UNCHANGED <<token, toast, pageVars, userRole, roleChecked, readyState, reconnectCount,
                   reconnectTimer, lastMessage, newProduct, showOrderNotification,
                   updatedOrder, dismissTimers, crashed>>

handleCloseOrderNotification ==
    /\ ~crashed
    /\ showOrderNotification /\ updatedOrder # NoData
    /\ showOrderNotification' = FALSE
    /\ UNCHANGED <<token, toast, pageVars, userRole, roleChecked, readyState, reconnectCount,
                   reconnectTimer, lastMessage, showNotification, newProduct, updatedOrder,
                   dismissTimers, crashed>>

\* window.location.href = ... replaces the document: the browser loads the target URL, the
\* socket of the old document is closed with it, and every React state of the new document
\* starts from its initial value.  Only localStorage (the token) survives.
documentLoads ==
    /\ toast' = "none"
    /\ PageDiscarded
    /\ userRole' = "null"
    /\ roleChecked' = FALSE
    /\ readyState' = "UNINSTANTIATED"
    /\ reconnectCount' = 0
    /\ reconnectTimer' = FALSE
    /\ lastMessage' = NullMessage
    /\ showNotification' = FALSE
    /\ newProduct' = NoData
    /\ showOrderNotification' = FALSE
    /\ updatedOrder' = NoData
    /\ dismissTimers' = <<>>
    /\ crashed' = FALSE
    /\ UNCHANGED token

\* "View Product": setShowNotification(false), then window.location.href =
\* /buyer/product/<id>.
handleViewProduct ==
    /\ ~crashed
    /\ showNotification /\ newProduct # NoData
    /\ documentLoads

\* "View Order": setShowOrderNotification(false), then window.location.href =
\* /buyer/orders/<id>.
handleViewOrder ==
    /\ ~crashed
    /\ showOrderNotification /\ updatedOrder # NoData
    /\ documentLoads

\* ------------------------------------------------------------ specifications

Init ==
    /\ token \in Tokens
    /\ toast = "none"
    /\ PageInit
    /\ userRole = "null"
    /\ roleChecked = FALSE
    /\ readyState = "UNINSTANTIATED"
    /\ reconnectCount = 0
    /\ reconnectTimer = FALSE
    /\ lastMessage = NullMessage
    /\ showNotification = FALSE
    /\ newProduct = NoData
    /\ showOrderNotification = FALSE
    /\ updatedOrder = NoData
    /\ dismissTimers = <<>>
    /\ crashed = FALSE

\* The handlers of MarketplacePage, with their arguments drawn from the given sets.
PageNext(catalogs, productIds) ==
    \/ fetchProductsStart
    \/ \E items \in catalogs : fetchProductsOk(items)
    \/ fetchProductsFail
    \/ \E productId \in productIds, optionId \in OptionIds : handleOptionSelect(productId, optionId)
    \/ \E productId \in productIds, quantity \in QuantityInputs : handleQuantityChange(productId, quantity)
    \/ \E productId \in productIds : addToCart(productId)
    \/ \E index \in -1 .. Len(cart) : removeFromCart(index)

\* The page is past its "Loading..." return and renders the product's card with an option
\* Select.
Rendered(productId) ==
    /\ ~isLoading
    /\ productId \in DOMAIN products
    /\ DOMAIN products[productId].options # {}

\* The handlers as the rendered page lets the user call them: an option of a rendered
\* product, the quantity controls and Add once an option is selected, the remove button of
\* a line, Logout; and the navigation a router.push started coming to its end.
PageUserNext(catalogs, productIds) ==
    \/ fetchProductsStart
    \/ \E items \in catalogs : fetchProductsOk(items)
    \/ fetchProductsFail
    \/ \E productId \in productIds :
          /\ Rendered(productId)
          /\ \E optionId \in DOMAIN products[productId].options :
                handleOptionSelect(productId, optionId)
    \/ \E productId \in productIds, quantity \in QuantityInputs :
          /\ Rendered(productId)
          /\ selectedOptions[productId] # NoOption
          /\ handleQuantityChange(productId, quantity)
    \/ \E productId \in productIds :
          /\ Rendered(productId)
          /\ selectedOptions[productId] # NoOption
          /\ addToCart(productId)
    \/ \E index \in 0 .. Len(cart) - 1 : ~isLoading /\ removeFromCart(index)
    \/ ~isLoading /\ handleLogout
    \/ navigationCompletes

\* The Order button (enabled while the cart has a line) and the responses to its POSTs.
OrderNext ==
    \/ ~isLoading /\ cart # <<>> /\ handleCreateOrder
    \/ createOrderOk
    \/ createOrderFail

\* The push channel's connection life cycle.
ChannelNext ==
    \/ checkUserRole
    \/ openSocket
    \/ onOpen
    \/ onClose
    \/ onError
    \/ reconnect

\* Frames arriving and notifications going away.
NotificationNext(frames) ==
    \/ \E frame \in frames : onMessage(frame)
    \/ dismissTimerFires
    \/ handleCloseNotification
    \/ handleCloseOrderNotification
    \/ handleViewProduct
    \/ handleViewOrder

\* The marketplace page alone, every response being CatalogA (the provider stays as mounted).
SpecCart == Init /\ [][PageNext({CatalogA}, ProductIds)]_vars

\* The marketplace page alone, one product, the catalog changing between responses, a
\* fetch possibly started before the previous one was answered.
SpecCatalog == Init /\ [][PageNext(Catalogs, {"p1"}) \/ effectRunsAgain]_vars

\* The provider alone, with the page's logout.
SpecPush ==
    Init /\ [][ChannelNext \/ NotificationNext(Frames) \/ handleLogout \/ navigationCompletes]_vars

\* Page and provider interleaved: the user on the rendered page, over one product of one
\* catalog, while the channel connects and frames arrive.
Spec ==
    Init /\ [][\/ PageUserNext({CatalogA}, {"p1"})
               \/ checkUserRole \/ openSocket \/ onOpen
               \/ NotificationNext(OneFrameOfEachSort)]_vars

\* The user on the rendered page, over one product of one catalog, placing orders (the
\* provider stays as mounted).
SpecOrder == Init /\ [][PageUserNext({CatalogA}, {"p1"}) \/ OrderNext]_vars

\* Notifications coming and going on a connected channel while the user puts option oA of
\* p1 in the cart.
SpecNotice ==
    Init /\ [][\/ fetchProductsStart
               \/ fetchProductsOk(CatalogA)
               \/ Rendered("p1") /\ handleOptionSelect("p1", "oA")
               \/ Rendered("p1") /\ selectedOptions["p1"] # NoOption /\ addToCart("p1")
               \/ checkUserRole \/ openSocket \/ onOpen
               \/ NotificationNext(OneFrameOfEachSort)]_vars

\* Lines being added to the cart and removed from it: both products of CatalogA, every
\* quantity left at 1.
SpecLines ==
    Init /\ [][\/ fetchProductsStart
               \/ fetchProductsOk(CatalogA)
               \/ \E productId \in ProductIds, optionId \in OptionIds :
                     handleOptionSelect(productId, optionId)
               \/ \E productId \in ProductIds : addToCart(productId)
               \/ \E index \in -1 .. Len(cart) : removeFromCart(index)]_vars

\* Options and quantities being chosen for both products of CatalogA, p2 going to the cart.
SpecSelect ==
    Init /\ [][\/ fetchProductsStart
               \/ fetchProductsOk(CatalogA)
               \/ \E productId \in ProductIds, optionId \in OptionIds :
                     handleOptionSelect(productId, optionId)
               \/ \E productId \in ProductIds, quantity \in QuantityInputs :
                     handleQuantityChange(productId, quantity)
               \/ addToCart("p2")]_vars

\* SpecPush with the event loop running every setTimeout callback that is due: a pending
\* dismiss timer does fire.
SpecPushFair == SpecPush /\ WF_vars(dismissTimerFires)

\* SpecOrder with handleCreateOrder also called as a function, whatever the cart holds.
SpecSubmit == Init /\ [][PageUserNext({CatalogA}, {"p1"}) \/ OrderNext \/ handleCreateOrder]_vars

\* The user on the rendered page while the catalog changes between responses and the page
\* effect may run again before a response has arrived.
SpecFetch == Init /\ [][PageUserNext(Catalogs, {"p1"}) \/ effectRunsAgain]_vars

\* ------------------------------------------------------------------- claims

\* Positions of the lines of items that hold the pair (productId, optionId).
LinesFor(items, productId, optionId) ==
    { i \in 1 .. Len(items) : items[i].productId = productId /\ items[i].optionId = optionId }

\* Total quantity items holds for the pair (0 if it has no line).
RECURSIVE QuantityFor(_, _, _, _)
QuantityFor(items, from, productId, optionId) ==
    IF from > Len(items)
    THEN 0
    ELSE (IF items[from].productId = productId /\ items[from].optionId = optionId
          THEN items[from].quantity ELSE 0)
         + QuantityFor(items, from + 1, productId, optionId)

AtMostOneLinePerPair ==
    \A i, j \in 1 .. Len(cart) :
        i # j => (cart[i].productId # cart[j].productId \/ cart[i].optionId # cart[j].optionId)

\* addToCart(productId) found the product and its selected option, so it adds.
Adds(productId) == addToCart(productId) /\ HasSelectedOption(productId)

\* C1: in every reachable state the cart holds at most one line per (productId, optionId)
\* pair, and adding a pair that already has a line leaves the number of lines as it was
\* and raises that line's quantity.
C1_OneLinePerPair ==
    /\ []AtMostOneLinePerPair
    /\ [][\A productId \in ProductIds :
            (Adds(productId) /\ LinesFor(cart, productId, selectedOptions[productId]) # {})
            => /\ Len(cart') = Len(cart)
               /\ \A i \in LinesFor(cart, productId, selectedOptions[productId]) :
                     /\ cart'[i].productId = productId
                     /\ cart'[i].optionId = selectedOptions[productId]
                     /\ cart'[i].quantity > cart[i].quantity]_vars

\* Two lines sharing an option id under different products, the first one merged (a single
\* add is at most 3).
C1_Witness ==
    /\ Len(cart) = 2
    /\ cart[1].optionId = cart[2].optionId
    /\ cart[1].productId # cart[2].productId
    /\ cart[1].quantity = 4
    /\ toast = "Added to cart"

\* C2: every add of quantity q for a pair leaves exactly one line for the pair, whose
\* quantity is what the cart held for the pair before plus q (so a run of adds gives the
\* sum of the added quantities), and raises the total by q times the line's unit price.
C2_QuantityIsSumOfAdds ==
    [][\A productId \in ProductIds :
         Adds(productId)
         => LET optionId == selectedOptions[productId]
                quantity == quantities[productId]
            IN  /\ Cardinality(LinesFor(cart', productId, optionId)) = 1
                /\ \A i \in LinesFor(cart', productId, optionId) :
                      /\ cart'[i].quantity = QuantityFor(cart, 1, productId, optionId) + quantity
                      /\ reduceTotal(cart', 1) = getTotalAmount + quantity * cart'[i].price]_vars

\* p1/oA added as 2 then 3 (or 3 then 2): one line of 5, total 5 x unit price.
C2_Witness ==
    /\ Len(cart) = 1
    /\ cart[1].productId = "p1"
    /\ cart[1].optionId = "oA"
    /\ cart[1].maxQuantity = 3
    /\ cart[1].quantity = 5
    /\ getTotalAmount = 5 * cart[1].price

\* C3: an add whose quantity is below 1 or above the selected option's available quantity
\* is rejected with an error and leaves the cart lines and the total unchanged.
C3_BadQuantityRejected ==
    [][\A productId \in ProductIds :
         ( /\ Adds(productId)
           /\ \/ quantities[productId] < 1
              \/ quantities[productId] > SelectedOption(productId).quantity )
         => /\ cart' = cart
            /\ reduceTotal(cart', 1) = getTotalAmount
            /\ toast' = "Error: Please select a product option"]_vars

\* C4: a malformed frame received while OPEN is dropped: the provider keeps running, the
\* channel stays OPEN and no notification becomes visible.
C4_MalformedFrameDropped ==
    [][onMessage(MalformedFrame)
       => /\ ~crashed'
          /\ readyState' = "OPEN"
          /\ showNotification' => showNotification
          /\ showOrderNotification' => showOrderNotification]_vars

\* Another timer of the given kind is pending behind the oldest one.
NewerTimerPending(kind) ==
    \E i \in 2 .. Len(dismissTimers) : dismissTimers[i] = kind

\* C5: the dismiss of a timer that a newer event of the same kind has superseded never
\* hides the notification.
C5_OlderTimerSuperseded ==
    [][\A kind \in {"product", "order"} :
         (dismissTimerFires /\ Head(dismissTimers) = kind /\ NewerTimerPending(kind))
         => /\ showNotification' = showNotification
            /\ showOrderNotification' = showOrderNotification]_vars

\* C6: an accepted event shows the notification of its kind with the event's payload, and
\* a kind's payload is set, or its notification becomes visible, only with the payload of an
\* event of that kind just received (a page load empties it); so the one notification per
\* kind shows the most recent event of that kind.
C6_ShowsLatestOfKind ==
    /\ [][\A frame \in WellFormedFrames :
            onMessage(frame)
            => /\ (frame.event = "product_created" /\ frame.data # NoData)
                  => (showNotification' /\ newProduct' = frame.data)
               /\ (frame.event = "order_updated" /\ frame.data # NoData)
                  => (showOrderNotification' /\ updatedOrder' = frame.data)]_vars
    /\ [][/\ ((newProduct' # newProduct /\ newProduct' # NoData)
              \/ (showNotification' /\ ~showNotification))
             => /\ lastMessage'.event = "product_created"
                /\ newProduct' = lastMessage'.data
          /\ ((updatedOrder' # updatedOrder /\ updatedOrder' # NoData)
              \/ (showOrderNotification' /\ ~showOrderNotification))
             => /\ lastMessage'.event = "order_updated"
                /\ updatedOrder' = lastMessage'.data]_vars

\* A second product event arrived while the first one's timer was pending: d2 is shown.
C6_Witness ==
    /\ showNotification
    /\ newProduct = "d2"
    /\ dismissTimers = <<"product", "product">>
    /\ updatedOrder = "d1"

\* C7: a logout while the channel is CONNECTING or OPEN forces it to a disconnected state.
C7_LogoutDisconnects ==
    [][(handleLogout /\ readyState \in {"CONNECTING", "OPEN"})
       => readyState' \in {"UNINSTANTIATED", "CLOSING", "CLOSED"}]_vars

\* C8: while the role read at mount is not "buyer" the channel stays UNINSTANTIATED, no
\* connection attempt is made, no frame is received and no notification is visible.
C8_NonBuyerNeverConnects ==
    userRole # "buyer"
    => /\ readyState = "UNINSTANTIATED"
       /\ reconnectCount = 0
       /\ ~reconnectTimer
       /\ lastMessage = NullMessage
       /\ ~showNotification
       /\ ~showOrderNotification

\* The mount effect read the role "supplier".
C8_Witness == roleChecked /\ userRole = "supplier" /\ readyState = "UNINSTANTIATED"

\* C9: after a close the channel is CLOSED with a reconnect pending exactly while fewer
\* than 10 attempts were made; short of a page load it leaves CLOSED only by that
\* reconnect, to CONNECTING, counting one attempt; so after 10 attempts it stays CLOSED.
C9_BoundedReconnect ==
    /\ [](reconnectCount <= 10)
    /\ []((readyState = "CLOSED" /\ ~crashed) => (reconnectTimer <=> reconnectCount < 10))
    /\ [][(readyState = "CLOSED" /\ readyState' # "CLOSED" /\ ~documentLoads)
          => /\ reconnectTimer
             /\ readyState' = "CONNECTING"
             /\ reconnectCount' = reconnectCount + 1]_vars
    /\ [][(readyState = "CLOSED" /\ ~reconnectTimer /\ ~documentLoads)
          => UNCHANGED <<readyState, reconnectTimer, reconnectCount>>]_vars

\* The tenth reconnect attempt failed: CLOSED for good.
C9_Witness ==
    /\ readyState = "CLOSED"
    /\ reconnectCount = 10
    /\ ~reconnectTimer
    /\ ~crashed

\* C10: no push frame changes the cart lines, the total or a product's selection.
C10_PushLeavesCartAlone ==
    [][\A frame \in OneFrameOfEachSort :
         onMessage(frame)
         => /\ cart' = cart
            /\ reduceTotal(cart', 1) = getTotalAmount
            /\ selectedOptions' = selectedOptions
            /\ quantities' = quantities]_vars

\* C11: "View Product" and "View Order" leave the cart and the connection state unchanged.
C11_ViewLeavesCartAndChannel ==
    [][(handleViewProduct \/ handleViewOrder)
       => /\ cart' = cart
          /\ readyState' = readyState]_vars

\* What a dismiss of one kind must leave alone: the payloads, the cart, the selection and
\* the channel.
DismissFrame ==
    /\ UNCHANGED <<newProduct, updatedOrder>>
    /\ UNCHANGED <<cart, selectedOptions, quantities>>
    /\ UNCHANGED <<readyState, reconnectCount, reconnectTimer, lastMessage>>

\* The pending dismiss timers of a kind, oldest first.
TimersOf(timers, kind) == SelectSeq(timers, LAMBDA t : t = kind)

\* C12: a dismiss, by the close button or by a timer, hides the notification of its kind
\* and changes nothing else: not the other kind's visibility or payload or pending timers,
\* not the cart, the selection or the channel.
C12_DismissClearsOnlyItsFlag ==
    [][/\ (handleCloseNotification \/ (dismissTimerFires /\ Head(dismissTimers) = "product"))
          => /\ ~showNotification'
             /\ showOrderNotification' = showOrderNotification
             /\ TimersOf(dismissTimers', "order") = TimersOf(dismissTimers, "order")
             /\ DismissFrame
       /\ (handleCloseOrderNotification \/ (dismissTimerFires /\ Head(dismissTimers) = "order"))
          => /\ ~showOrderNotification'
             /\ showNotification' = showNotification
             /\ TimersOf(dismissTimers', "product") = TimersOf(dismissTimers, "product")
             /\ DismissFrame]_vars

\* The product notification's timer fired while the order notification was visible, with a
\* line in the cart and the channel open: the order notification is still there.
C12_Witness ==
    /\ ~showNotification
    /\ newProduct # NoData
    /\ showOrderNotification
    /\ updatedOrder # NoData
    /\ dismissTimers = <<"order">>
    /\ cart # <<>>
    /\ readyState = "OPEN"

\* C13: handleQuantityChange stores the requested quantity exactly when an option is
\* selected and 1 <= quantity <= that option's available quantity; every other request
\* leaves the chosen quantities as they were; so a quantity it stores is within range.
C13_QuantityWithinRange ==
    [][\A productId \in ProductIds, quantity \in QuantityInputs :
         handleQuantityChange(productId, quantity)
         => /\ IF /\ HasSelectedOption(productId)
                  /\ 1 <= quantity
                  /\ quantity <= SelectedOption(productId).quantity
               THEN quantities' = [quantities EXCEPT ![productId] = quantity]
               ELSE quantities' = quantities
            /\ quantities'[productId] # quantities[productId]
               => /\ HasSelectedOption(productId)
                  /\ quantities'[productId] \in 1 .. SelectedOption(productId).quantity
            /\ UNCHANGED <<cart, selectedOptions>>]_vars

\* The quantity of p1 was raised to the 3 that option oA has available.
C13_Witness ==
    /\ HasSelectedOption("p1")
    /\ selectedOptions["p1"] = "oA"
    /\ quantities["p1"] = SelectedOption("p1").quantity
    /\ quantities["p1"] = 3

\* C14: a successful add clears the product's selection; the selection comes back only by
\* an option select; and an add for a product without a selection changes no cart line.
C14_SelectionConsumedOnce ==
    [][\A productId \in ProductIds :
         /\ Adds(productId)
            => /\ selectedOptions'[productId] = NoOption
               /\ quantities'[productId] = 1
         /\ (selectedOptions[productId] = NoOption /\ selectedOptions'[productId] # NoOption)
            => \E optionId \in OptionIds : handleOptionSelect(productId, optionId)
         /\ (addToCart(productId) /\ selectedOptions[productId] = NoOption)
            => /\ cart' = cart
               /\ toast' = "Error: Please select a product option"]_vars

\* Add was called again for p1 right after a successful add: the cart still holds the one
\* line of the first add, with its quantity.
C14_Witness ==
    /\ toast = "Error: Please select a product option"
    /\ selectedOptions["p1"] = NoOption
    /\ Len(cart) = 1
    /\ cart[1].productId = "p1"
    /\ cart[1].quantity = 2

\* What a cart line copied from the catalog when it was created.
Snapshot(line) ==
    <<line.productId, line.productName, line.productCode, line.optionId, line.optionName,
      line.price, line.maxQuantity>>

\* C15: a catalog response changes no cart line, and an add (a merge included) leaves
\* every line that was in the cart where it was with the name, code, unit price and
\* maxQuantity it was created with.
C15_LineKeepsItsSnapshot ==
    [][/\ \A items \in Catalogs : fetchProductsOk(items) => cart' = cart
       /\ \A productId \in ProductIds :
             Adds(productId)
             => /\ Len(cart') >= Len(cart)
                /\ \A i \in 1 .. Len(cart) : Snapshot(cart'[i]) = Snapshot(cart[i])]_vars

\* The catalog now names p1 "n1x" and sells oA as "ax" at 4 with 1 available; the line
\* created under the first catalog and merged into since still reads n1, a, 2 and 3.
C15_Witness ==
    /\ products = CatalogB
    /\ Len(cart) = 1
    /\ Snapshot(cart[1]) = <<"p1", CatalogA["p1"].name, CatalogA["p1"].code, "oA",
                             CatalogA["p1"].options["oA"].name,
                             CatalogA["p1"].options["oA"].price,
                             CatalogA["p1"].options["oA"].quantity>>
    /\ cart[1].productName # products["p1"].name
    /\ cart[1].optionName # products["p1"].options["oA"].name
    /\ cart[1].price # products["p1"].options["oA"].price
    /\ cart[1].maxQuantity # products["p1"].options["oA"].quantity
    /\ cart[1].quantity = 4
    /\ toast = "Added to cart"

\* The sum of unitPrice x quantity over the lines of items, taken from the last line back.
RECURSIVE SumOfLines(_)
SumOfLines(items) ==
    IF items = <<>>
    THEN 0
    ELSE SumOfLines(SubSeq(items, 1, Len(items) - 1))
         + items[Len(items)].price * items[Len(items)].quantity

\* C16: getTotalAmount is the sum over the cart's lines of unit price x quantity, and 0 for
\* the empty cart.
C16_TotalIsSumOfLines ==
    /\ getTotalAmount = SumOfLines(cart)
    /\ cart = <<>> => getTotalAmount = 0

\* Three lines, 3 x 2 + 1 x 5 + 1 x 3.
C16_Witness ==
    /\ Len(cart) = 3
    /\ cart[1].price * cart[1].quantity = 6
    /\ cart[2].price * cart[2].quantity = 5
    /\ cart[3].price * cart[3].quantity = 3
    /\ getTotalAmount = 14

\* C17: when an order submission succeeds the cart is emptied.
C17_CartClearedAfterOrder ==
    [][createOrderOk => cart' = <<>>]_vars

\* C18: an add for a pair that already has a line adds exactly the chosen quantity to that
\* line, whatever the line's maxQuantity, changes nothing else in the cart and reports
\* success.
C18_MergeAddsWithoutCap ==
    [][\A productId \in ProductIds :
         \A i \in LinesFor(cart, productId, selectedOptions[productId]) :
            Adds(productId)
            => /\ cart' = [cart EXCEPT ![i].quantity = cart[i].quantity + quantities[productId]]
               /\ toast' = "Added to cart"]_vars

\* A merge took the line of p1/oA to 4, above the 3 it recorded as maxQuantity.
C18_Witness ==
    /\ Len(cart) = 1
    /\ cart[1].productId = "p1"
    /\ cart[1].optionId = "oA"
    /\ cart[1].maxQuantity = 3
    /\ cart[1].quantity = 4
    /\ toast = "Added to cart"
    /\ products = CatalogA

\* C19: removeFromCart with an index below 0 or at or above the cart's length, the empty
\* cart included, leaves the cart as it was and tells the user nothing.
C19_RemoveOutOfRangeIsNoOp ==
    [][\A index \in -1 .. Len(cart) :
         ((index < 0 \/ index >= Len(cart)) /\ removeFromCart(index))
         => /\ cart' = cart
            /\ Len(cart') = Len(cart)
            /\ toast' = toast]_vars

\* Two lines in the cart, and removeFromCart(-1) and removeFromCart(2) both run and leave
\* them in place.
C19_Witness ==
    /\ Len(cart) = 2
    /\ ENABLED (removeFromCart(-1) /\ cart' = cart)
    /\ ENABLED (removeFromCart(Len(cart)) /\ cart' = cart)

\* C20: removeFromCart with an index inside the cart deletes the line at that index: one
\* line fewer, the lines before it where they were, the lines after it one place up.
C20_RemoveDeletesThatLine ==
    [][\A index \in 0 .. Len(cart) - 1 :
         removeFromCart(index)
         => /\ Len(cart') = Len(cart) - 1
            /\ \A i \in 1 .. index : cart'[i] = cart[i]
            /\ \A i \in index + 1 .. Len(cart') : cart'[i] = cart[i + 1]]_vars

\* Three different lines, and removeFromCart(1) takes the middle one out.
C20_Witness ==
    /\ Len(cart) = 3
    /\ cart[1] # cart[2] /\ cart[2] # cart[3] /\ cart[1] # cart[3]
    /\ ENABLED (removeFromCart(1) /\ cart' = <<cart[1], cart[3]>>)

\* C21: handleOptionSelect(productId, optionId) makes optionId the product's chosen option
\* and 1 its chosen quantity; the other products' options and quantities and the cart stay
\* as they were.
C21_SelectSetsOptionResetsQuantity ==
    [][\A productId \in ProductIds, optionId \in OptionIds :
         handleOptionSelect(productId, optionId)
         => /\ selectedOptions' = [selectedOptions EXCEPT ![productId] = optionId]
            /\ quantities' = [quantities EXCEPT ![productId] = 1]
            /\ cart' = cart]_vars

\* p1 has oA chosen at quantity 3, p2 has its own option and the cart a line: selecting oB
\* for p1 takes p1's quantity back to 1 and touches nothing of p2.
C21_Witness ==
    /\ selectedOptions["p1"] = "oA"
    /\ quantities["p1"] = 3
    /\ selectedOptions["p2"] = "oA"
    /\ cart # <<>>
    /\ ENABLED ( /\ handleOptionSelect("p1", "oB")
                 /\ selectedOptions'["p1"] = "oB"
                 /\ quantities'["p1"] = 1
                 /\ selectedOptions'["p2"] = "oA" )

\* C22: a frame whose event is neither product_created nor order_updated changes no
\* notification's visibility, payload or timer and not the connection.
C22_UnrecognizedEventIgnored ==
    [][\A frame \in WellFormedFrames :
         (frame.event \notin {"product_created", "order_updated"} /\ onMessage(frame))
         => UNCHANGED <<showNotification, newProduct, showOrderNotification, updatedOrder,
                        dismissTimers, readyState, reconnectCount, reconnectTimer, crashed>>]_vars

\* A "ping" carrying a payload was the last frame received: the product notification shown
\* before it is still visible with its payload, the order one is still absent.
C22_Witness ==
    /\ lastMessage = Frame("json", "ping", "d1")
    /\ showNotification
    /\ newProduct = "d2"
    /\ ~showOrderNotification
    /\ updatedOrder = NoData
    /\ dismissTimers = <<"product">>
    /\ readyState = "OPEN"

\* C29: a product_created or order_updated frame without a data payload shows nothing and
\* leaves both kinds' visibility, payload and timers as they were.
C29_EventWithoutDataIgnored ==
    [][\A frame \in WellFormedFrames :
         ( /\ frame.event \in {"product_created", "order_updated"}
           /\ frame.data = NoData
           /\ onMessage(frame) )
         => UNCHANGED <<showNotification, newProduct, showOrderNotification, updatedOrder,
                        dismissTimers>>]_vars

\* A product_created frame without data was the last frame received: no product
\* notification and no product payload, and the order notification shown before it has
\* kept its payload.
C29_Witness ==
    /\ lastMessage = Frame("json", "product_created", NoData)
    /\ ~showNotification
    /\ newProduct = NoData
    /\ showOrderNotification
    /\ updatedOrder = "d1"
    /\ dismissTimers = <<"order">>
    /\ readyState = "OPEN"

\* C23: a visible notification always has a dismiss timer of its kind pending, and with
\* the timers firing it is eventually hidden, whatever else happens meanwhile.
C23_NotificationEventuallyHidden ==
    /\ [](showNotification => TimersOf(dismissTimers, "product") # <<>>)
    /\ [](showOrderNotification => TimersOf(dismissTimers, "order") # <<>>)
    /\ showNotification ~> ~showNotification
    /\ showOrderNotification ~> ~showOrderNotification

\* The timer of the one product event received has fired and hidden its notification; the
\* payload stays stored.
C23_Witness ==
    /\ lastMessage = Frame("json", "product_created", "d1")
    /\ newProduct = "d1"
    /\ ~showNotification
    /\ dismissTimers = <<>>
    /\ ~crashed
    /\ readyState = "OPEN"

\* C24: an add for a pair that has no line appends one line for that pair and quantity at
\* the end of the cart; the lines already there keep their contents and places.
C24_NewPairAppendsAtEnd ==
    [][\A productId \in ProductIds :
         (Adds(productId) /\ LinesFor(cart, productId, selectedOptions[productId]) = {})
         => /\ Len(cart') = Len(cart) + 1
            /\ SubSeq(cart', 1, Len(cart)) = cart
            /\ cart'[Len(cart')] = NewItem(productId, quantities[productId])
            /\ cart'[Len(cart')].productId = productId
            /\ cart'[Len(cart')].optionId = selectedOptions[productId]]_vars

\* p2/oA was added after p1/oB after p1/oA: three lines in the order of their first add.
C24_Witness ==
    /\ Len(cart) = 3
    /\ <<cart[1].productId, cart[1].optionId>> = <<"p1", "oA">>
    /\ <<cart[2].productId, cart[2].optionId>> = <<"p1", "oB">>
    /\ <<cart[3].productId, cart[3].optionId>> = <<"p2", "oA">>
    /\ cart[1].quantity = 2
    /\ toast = "Added to cart"

\* C25: an add for a product that is not in the loaded catalog, or whose selected option
\* is none of its options, shows the error and leaves the cart, the selections and the
\* chosen quantities as they were.
C25_AddWithoutOptionRejected ==
    [][\A productId \in ProductIds :
         (~HasSelectedOption(productId) /\ addToCart(productId))
         => /\ toast' = "Error: Please select a product option"
            /\ UNCHANGED <<cart, selectedOptions, quantities>>]_vars

\* oB was chosen for p1 under the first catalog, the catalog now has no oB,
\* and Add answered with the error: the stale choice and the cart's line are still there.
C25_Witness ==
    /\ toast = "Error: Please select a product option"
    /\ products = CatalogB
    /\ selectedOptions["p1"] = "oB"
    /\ ~HasSelectedOption("p1")
    /\ Len(cart) = 1
    /\ cart[1].quantity = 3

\* C26: for every product with a selected option the chosen quantity is at least 1 and at
\* most the quantity that option has available now.
C26_ChosenQuantityWithinStock ==
    \A productId \in ProductIds :
       HasSelectedOption(productId)
       => quantities[productId] \in 1 .. SelectedOption(productId).quantity

\* C27: at most one purchase-order request is outstanding, and isCreatingOrder is true
\* exactly while one is.
C27_OneOrderRequestInFlight ==
    /\ orderRequests <= 1
    /\ isCreatingOrder <=> orderRequests > 0

\* C30: handleCreateOrder with an empty cart sends nothing and changes nothing; a failed
\* submission shows an error, leaves the cart's lines and the page where they are and sets
\* isCreatingOrder to false.
C30_EmptyOrFailedOrderLeavesCart ==
    [][/\ (cart = <<>> /\ handleCreateOrder)
          => UNCHANGED <<orderRequests, isCreatingOrder, cart, toast, leaving>>
       /\ createOrderFail
          => /\ cart' = cart
             /\ ~isCreatingOrder'
             /\ toast' = "Error"
             /\ leaving' = leaving]_vars

\* A submission has failed (a response came back and no navigation started): the flag is
\* false and the cart still holds the line that was submitted.
C30_Witness ==
    /\ toast = "Error"
    /\ ~isCreatingOrder
    /\ ~leaving
    /\ orderRequests = 1
    /\ Len(cart) = 1
    /\ cart[1].quantity = 3

====
